---- MODULE Spec2Model ----
(***************************************************************************)
(* EffectivePatterns::Coroutine (src/Coroutine.hpp): a body run on a       *)
(* dedicated worker thread, handed the turn by the caller thread through   *)
(* one mutex and one condition variable.                                   *)
(*                                                                         *)
(* Two threads are modelled, each by its control position: the caller      *)
(* (cpc) runs the constructor, then any sequence of operator bool, get,    *)
(* resume, and at most one destructor; the worker (wpc) runs               *)
(* Coroutine::run, which calls the body, which calls yield.  Every step    *)
(* is one statement of the source.                                         *)
(*                                                                         *)
(* Spec         : the program.  The three waits have no predicate, so a    *)
(*                wait returns after a notify_all or spuriously, as        *)
(*                std::condition_variable::wait is allowed to.             *)
(* FairSpec     : Spec with both threads scheduled.                        *)
(* SpecNotified : the runs of Spec in which no wait returns spuriously.    *)
(***************************************************************************)
EXTENDS Integers, Sequences, FiniteSets, TLC

\* ------------------------------------------------------------------ bounds
\* Longest list of values a body yields before its tail.
MaxYields == 2
\* The caller issues at most this many resume() calls: one more than the
\* longest body needs, so that a resume() on a Finished coroutine happens.
MaxResumes == MaxYields + 1
\* A body whose tail loops on yield is cut after this many yield() calls;
\* without spurious wake-ups a worker calls yield at most MaxResumes + 2 times.
MaxYieldCalls == MaxResumes + 2

\* ------------------------------------------------------------------ inputs
\* Yielded values: as many as the longest list, so that a body can yield
\* pairwise different values, in any order.
Values == 1..MaxYields
\* YieldValue result; is default-initialised: indeterminate until a yield.
Indeterminate == 0
\* The value yielded by a body's endless loop.
LoopValue == MaxYields

ValueLists ==
    {s \in UNION {[1..n -> Values] : n \in 0..MaxYields} :
        \A i, j \in DOMAIN s : s[i] = s[j] => i = j}

\* A body: yields vals[1], ..., vals[N], then returns, throws an error of
\* its own, or loops on yield for ever.  handler tells whether the body
\* wraps its yield calls in a try block with catch (...) or
\* catch (const std::exception &), and whether that handler goes on with
\* the statement after the yield ("swallow") or returns from the body.
Bodies ==
    [vals : ValueLists, tail : {"return", "throw", "loop"},
     handler : {"none", "swallow", "return"}]

VARIABLES
    body,          \* the callable given to the constructor
    ndebug,        \* TRUE: built with NDEBUG, assert() expands to nothing
    variant,       \* "value": Coroutine<YieldValue>, "void": Coroutine<void>
    quit,          \* bool quit
    canGetValue,   \* bool canGetValue (value variant)
    result,        \* YieldValue result (value variant)
    mutex,         \* owner of std::mutex mutex: "none", "caller", "worker"
    cpc,           \* caller thread's position
    wpc,           \* worker thread's position
    yi,            \* number of yield() calls the body has made
    nres,          \* number of resume() calls that have returned
    obs,           \* the caller's last observation (operator bool or get)
                   \* since the last member function returned
    cancel,        \* worker's position and yi when ~Coroutine set quit
    joins,         \* number of thread->join() calls that have returned
    spur,          \* TRUE once a wait has returned without a notify
    crashed        \* "no", "assert" (assert failed), "terminate" (std::terminate)

vars == <<body, ndebug, variant, quit, canGetValue, result, mutex, cpc, wpc,
          yi, nres, obs, cancel, joins, spur, crashed>>

cfgVars == <<body, ndebug, variant>>
shared == <<quit, canGetValue, result>>
hist == <<nres, obs, cancel, joins, spur>>

NoObs == [op |-> "none", n |-> 0, ok |-> FALSE, val |-> Indeterminate]
NoCancel == [at |-> "none", yi |-> 0]

\* Threads blocked in conditionVariable.wait and not yet notified.
WaitingPcs == {"ctor_waiting", "res_waiting", "y_waiting"}
waiters ==
    (IF cpc \in WaitingPcs THEN {"caller"} ELSE {}) \cup
    (IF wpc \in WaitingPcs THEN {"worker"} ELSE {})

\* conditionVariable.notify_all() seen from a thread at position pc: a
\* waiting thread leaves the wait and has to take the mutex again.
Woken(pc) ==
    CASE pc = "ctor_waiting" -> "ctor_reacq"
      [] pc = "res_waiting" -> "res_reacq"
      [] pc = "y_waiting" -> "y_reacq"
      [] OTHER -> pc

Alive == crashed = "no"

Init ==
    /\ body \in Bodies
    /\ ndebug \in BOOLEAN
    /\ variant \in {"value", "void"}
    /\ quit = FALSE
    /\ canGetValue = FALSE
    /\ result = Indeterminate
    /\ mutex = "none"
    /\ cpc = "ctor_lock"
    /\ wpc = "unborn"
    /\ yi = 0
    /\ nres = 0
    /\ obs = NoObs
    /\ cancel = NoCancel
    /\ joins = 0
    /\ spur = FALSE
    /\ crashed = "no"

\* ------------------------------------------------------------- constructor
\* std::unique_lock<std::mutex> lock(mutex);
CtorLock ==
    /\ Alive /\ cpc = "ctor_lock" /\ mutex = "none"
    /\ mutex' = "caller" /\ cpc' = "ctor_spawn"
    /\ UNCHANGED <<cfgVars, shared, wpc, yi, hist, crashed>>

\* thread.reset(new std::thread(&Coroutine::run, this, coroutine));
CtorSpawn ==
    /\ Alive /\ cpc = "ctor_spawn"
    /\ wpc' = "run_start" /\ cpc' = "ctor_wait"
    /\ UNCHANGED <<cfgVars, shared, mutex, yi, hist, crashed>>

\* Mutant: the constructor does not wait for the worker's first notify.
CtorWait_NoWait ==
    /\ Alive /\ cpc = "ctor_wait"
    /\ cpc' = "ctor_unlock"
    /\ UNCHANGED <<cfgVars, shared, mutex, wpc, yi, hist, crashed>>

\* conditionVariable.wait(lock): releases the mutex and blocks, atomically.
CtorWait ==
    /\ Alive /\ cpc = "ctor_wait"
    /\ mutex' = "none" /\ cpc' = "ctor_waiting"
    /\ UNCHANGED <<cfgVars, shared, wpc, yi, hist, crashed>>

\* wait() takes the mutex again before it returns.
CtorReacquire ==
    /\ Alive /\ cpc = "ctor_reacq" /\ mutex = "none"
    /\ mutex' = "caller" /\ cpc' = "ctor_unlock"
    /\ UNCHANGED <<cfgVars, shared, wpc, yi, hist, crashed>>

\* End of the constructor: lock is destroyed, the constructor returns.
CtorReturn ==
    /\ Alive /\ cpc = "ctor_unlock"
    /\ mutex' = "none" /\ cpc' = "user"
    /\ UNCHANGED <<cfgVars, shared, wpc, yi, hist, crashed>>

\* ------------------------------------------------- operator bool and get
\* operator bool: return !quit;  No lock, no wait, no notify.
BoolCheck ==
    /\ Alive /\ cpc = "user"
    /\ obs' = [op |-> "bool", n |-> nres, ok |-> ~quit, val |-> Indeterminate]
    /\ UNCHANGED <<cfgVars, shared, mutex, cpc, wpc, yi, nres, cancel, joins, spur, crashed>>

\* Mutant: get consumes the value, clearing canGetValue.
GetValue_Consuming ==
    /\ Alive /\ cpc = "user" /\ variant = "value"
    /\ canGetValue
    /\ obs' = [op |-> "get", n |-> nres, ok |-> TRUE, val |-> result]
    /\ canGetValue' = FALSE
    /\ UNCHANGED <<cfgVars, quit, result, mutex, cpc, wpc, yi, nres, cancel, joins, spur, crashed>>

\* get: assert(canGetValue); return result;  The assertion passes.
GetValue ==
    /\ Alive /\ cpc = "user" /\ variant = "value"
    /\ canGetValue
    /\ obs' = [op |-> "get", n |-> nres, ok |-> TRUE, val |-> result]
    /\ UNCHANGED <<cfgVars, shared, mutex, cpc, wpc, yi, nres, cancel, joins, spur, crashed>>

\* get with canGetValue false, assertions compiled in: the process aborts.
GetAssertFail ==
    /\ Alive /\ cpc = "user" /\ variant = "value"
    /\ ~canGetValue /\ ~ndebug
    /\ crashed' = "assert"
    /\ UNCHANGED <<cfgVars, shared, mutex, cpc, wpc, yi, hist>>

\* get with canGetValue false under NDEBUG: result is returned as it is, the
\* value of an earlier yield, or an indeterminate value if nothing was
\* ever yielded.
GetUnchecked ==
    /\ Alive /\ cpc = "user" /\ variant = "value"
    /\ ~canGetValue /\ ndebug
    /\ \E v \in Values :
         /\ result # Indeterminate => v = result
         /\ obs' = [op |-> "get", n |-> nres, ok |-> FALSE, val |-> v]
    /\ UNCHANGED <<cfgVars, shared, mutex, cpc, wpc, yi, nres, cancel, joins, spur, crashed>>

\* ------------------------------------------------------------------ resume
\* The caller calls resume().
ResumeCall ==
    /\ Alive /\ cpc = "user" /\ nres < MaxResumes
    /\ cpc' = "res_lock" /\ obs' = NoObs
    /\ UNCHANGED <<cfgVars, shared, mutex, wpc, yi, nres, cancel, joins, spur, crashed>>

\* std::unique_lock<std::mutex> lock(mutex);
ResumeLock ==
    /\ Alive /\ cpc = "res_lock" /\ mutex = "none"
    /\ mutex' = "caller" /\ cpc' = "res_assert"
    /\ UNCHANGED <<cfgVars, shared, wpc, yi, hist, crashed>>

\* assert(!quit && "Invalid coroutine"); passes, or is compiled out.
ResumeAssertPass ==
    /\ Alive /\ cpc = "res_assert"
    /\ ~quit \/ ndebug
    /\ cpc' = "res_if"
    /\ UNCHANGED <<cfgVars, shared, mutex, wpc, yi, hist, crashed>>

\* assert(!quit && "Invalid coroutine"); fails: the process aborts.
ResumeAssertFail ==
    /\ Alive /\ cpc = "res_assert"
    /\ quit /\ ~ndebug
    /\ crashed' = "assert"
    /\ UNCHANGED <<cfgVars, shared, mutex, cpc, wpc, yi, hist>>

\* if (!quit) taken.
ResumeIfLive ==
    /\ Alive /\ cpc = "res_if" /\ ~quit
    /\ cpc' = "res_notify"
    /\ UNCHANGED <<cfgVars, shared, mutex, wpc, yi, hist, crashed>>

\* Mutant: resume has the assertion only, not the test that follows it.
ResumeIfQuit_Unguarded ==
    /\ Alive /\ cpc = "res_if" /\ quit
    /\ cpc' = "res_notify"
    /\ UNCHANGED <<cfgVars, shared, mutex, wpc, yi, hist, crashed>>

\* if (!quit) not taken: resume goes straight to its end.
ResumeIfQuit ==
    /\ Alive /\ cpc = "res_if" /\ quit
    /\ cpc' = "res_unlock"
    /\ UNCHANGED <<cfgVars, shared, mutex, wpc, yi, hist, crashed>>

\* conditionVariable.notify_all();
ResumeNotify ==
    /\ Alive /\ cpc = "res_notify"
    /\ wpc' = Woken(wpc) /\ cpc' = "res_wait"
    /\ UNCHANGED <<cfgVars, shared, mutex, yi, hist, crashed>>

\* conditionVariable.wait(lock);
ResumeWait ==
    /\ Alive /\ cpc = "res_wait"
    /\ mutex' = "none" /\ cpc' = "res_waiting"
    /\ UNCHANGED <<cfgVars, shared, wpc, yi, hist, crashed>>

ResumeReacquire ==
    /\ Alive /\ cpc = "res_reacq" /\ mutex = "none"
    /\ mutex' = "caller" /\ cpc' = "res_unlock"
    /\ UNCHANGED <<cfgVars, shared, wpc, yi, hist, crashed>>

\* End of resume: lock is destroyed, resume returns.
ResumeReturn ==
    /\ Alive /\ cpc = "res_unlock"
    /\ mutex' = "none" /\ cpc' = "user" /\ nres' = nres + 1
    /\ UNCHANGED <<cfgVars, shared, wpc, yi, obs, cancel, joins, spur, crashed>>

\* -------------------------------------------------------------- destructor
\* The caller destroys the coroutine.
DtorCall ==
    /\ Alive /\ cpc = "user"
    /\ cpc' = "dtor_lock" /\ obs' = NoObs
    /\ UNCHANGED <<cfgVars, shared, mutex, wpc, yi, nres, cancel, joins, spur, crashed>>

\* std::lock_guard<std::mutex> lock(mutex);
DtorLock ==
    /\ Alive /\ cpc = "dtor_lock" /\ mutex = "none"
    /\ mutex' = "caller" /\ cpc' = "dtor_quit"
    /\ UNCHANGED <<cfgVars, shared, wpc, yi, hist, crashed>>

\* quit = true;
DtorQuit ==
    /\ Alive /\ cpc = "dtor_quit"
    /\ quit' = TRUE
    /\ cancel' = [at |-> wpc, yi |-> yi]
    /\ cpc' = IF variant = "value" THEN "dtor_cgv" ELSE "dtor_unlock"
    /\ UNCHANGED <<cfgVars, canGetValue, result, mutex, wpc, yi, nres, obs, joins, spur, crashed>>

\* canGetValue = false;   (value variant only)
DtorClear ==
    /\ Alive /\ cpc = "dtor_cgv"
    /\ canGetValue' = FALSE /\ cpc' = "dtor_unlock"
    /\ UNCHANGED <<cfgVars, quit, result, mutex, wpc, yi, hist, crashed>>

\* End of the inner block: the lock_guard is destroyed.
DtorUnlock ==
    /\ Alive /\ cpc = "dtor_unlock"
    /\ mutex' = "none" /\ cpc' = "dtor_notify"
    /\ UNCHANGED <<cfgVars, shared, wpc, yi, hist, crashed>>

\* conditionVariable.notify_all();   (the mutex is not held)
DtorNotify ==
    /\ Alive /\ cpc = "dtor_notify"
    /\ wpc' = Woken(wpc) /\ cpc' = "dtor_join"
    /\ UNCHANGED <<cfgVars, shared, mutex, yi, hist, crashed>>

\* Mutant: the destructor lets go of the thread without waiting for it.
DtorJoin_NoWait ==
    /\ Alive /\ cpc = "dtor_join"
    /\ cpc' = "destroyed" /\ joins' = joins + 1
    /\ UNCHANGED <<cfgVars, shared, mutex, wpc, yi, nres, obs, cancel, spur, crashed>>

\* thread->join(); returns once the worker thread has exited.
DtorJoin ==
    /\ Alive /\ cpc = "dtor_join" /\ wpc = "exited"
    /\ cpc' = "destroyed" /\ joins' = joins + 1
    /\ UNCHANGED <<cfgVars, shared, mutex, wpc, yi, nres, obs, cancel, spur, crashed>>

\* ------------------------------------------------------------ run and body
\* run: try { coroutine();   The body starts on the worker thread.
RunStart ==
    /\ Alive /\ wpc = "run_start"
    /\ wpc' = "body"
    /\ UNCHANGED <<cfgVars, shared, mutex, cpc, yi, hist, crashed>>

\* The argument of the yi-th yield() call.
YieldArg == IF yi <= Len(body.vals) THEN body.vals[yi] ELSE LoopValue

\* The body runs up to its next yield() call and makes it.
BodyYield ==
    /\ Alive /\ wpc = "body"
    /\ \/ yi < Len(body.vals)
       \/ body.tail = "loop" /\ yi < MaxYieldCalls
    /\ yi' = yi + 1 /\ wpc' = "y_lock"
    /\ UNCHANGED <<cfgVars, shared, mutex, cpc, hist, crashed>>

\* The body has made all its yields and returns: run goes on after the try.
BodyReturn ==
    /\ Alive /\ wpc = "body"
    /\ yi >= Len(body.vals) /\ body.tail = "return"
    /\ wpc' = "run_lock"
    /\ UNCHANGED <<cfgVars, shared, mutex, cpc, yi, hist, crashed>>

\* The body has made all its yields and throws an error of its own.
BodyThrow ==
    /\ Alive /\ wpc = "body"
    /\ yi >= Len(body.vals) /\ body.tail = "throw"
    /\ wpc' = "body_throw"
    /\ UNCHANGED <<cfgVars, shared, mutex, cpc, yi, hist, crashed>>

\* run has a handler for InterruptedException only: any other exception
\* leaves the thread function, and std::terminate ends the process.
RunUncaught ==
    /\ Alive /\ wpc = "body_throw"
    /\ crashed' = "terminate"
    /\ UNCHANGED <<cfgVars, shared, mutex, cpc, wpc, yi, hist>>

\* ------------------------------------------------------------------- yield
\* Mutant: yield does not lock the mutex before it publishes.
YieldLock_Missing ==
    /\ Alive /\ wpc = "y_lock"
    /\ wpc' = IF variant = "value" THEN "y_result" ELSE "y_notify"
    /\ UNCHANGED <<cfgVars, shared, mutex, cpc, yi, hist, crashed>>

\* std::unique_lock<std::mutex> lock(mutex);
YieldLock ==
    /\ Alive /\ wpc = "y_lock" /\ mutex = "none"
    /\ mutex' = "worker"
    /\ wpc' = IF variant = "value" THEN "y_result" ELSE "y_notify"
    /\ UNCHANGED <<cfgVars, shared, cpc, yi, hist, crashed>>

\* Mutant: yield does not store its argument.
YieldStore_Skipped ==
    /\ Alive /\ wpc = "y_result"
    /\ wpc' = "y_cgv"
    /\ UNCHANGED <<cfgVars, shared, mutex, cpc, yi, hist, crashed>>

\* result = yieldValue;   (value variant only)
YieldStore ==
    /\ Alive /\ wpc = "y_result"
    /\ result' = YieldArg /\ wpc' = "y_cgv"
    /\ UNCHANGED <<cfgVars, quit, canGetValue, mutex, cpc, yi, hist, crashed>>

\* Mutant: the value variant's yield goes from the publish to the wait,
\* leaving out notify_all.
YieldPublish_NoNotify ==
    /\ Alive /\ wpc = "y_cgv"
    /\ canGetValue' = TRUE /\ wpc' = "y_wait"
    /\ UNCHANGED <<cfgVars, quit, result, mutex, cpc, yi, hist, crashed>>

\* canGetValue = true;   (value variant only)
YieldPublish ==
    /\ Alive /\ wpc = "y_cgv"
    /\ canGetValue' = TRUE /\ wpc' = "y_notify"
    /\ UNCHANGED <<cfgVars, quit, result, mutex, cpc, yi, hist, crashed>>

\* conditionVariable.notify_all();
YieldNotify ==
    /\ Alive /\ wpc = "y_notify"
    /\ cpc' = Woken(cpc) /\ wpc' = "y_wait"
    /\ UNCHANGED <<cfgVars, shared, mutex, yi, hist, crashed>>

\* conditionVariable.wait(lock);
YieldWait ==
    /\ Alive /\ wpc = "y_wait"
    /\ mutex' = "none" /\ wpc' = "y_waiting"
    /\ UNCHANGED <<cfgVars, shared, cpc, yi, hist, crashed>>

YieldReacquire ==
    /\ Alive /\ wpc = "y_reacq" /\ mutex = "none"
    /\ mutex' = "worker" /\ wpc' = "y_check"
    /\ UNCHANGED <<cfgVars, shared, cpc, yi, hist, crashed>>

\* if (quit) not taken: lock is destroyed, yield returns to the body.
YieldReturn ==
    /\ Alive /\ wpc = "y_check" /\ ~quit
    /\ mutex' = "none" /\ wpc' = "body"
    /\ UNCHANGED <<cfgVars, shared, cpc, yi, hist, crashed>>

\* Mutant: yield does not look at quit and returns to the body.
YieldInterrupt_Ignored ==
    /\ Alive /\ wpc = "y_check" /\ quit
    /\ mutex' = "none" /\ wpc' = "body"
    /\ UNCHANGED <<cfgVars, shared, cpc, yi, hist, crashed>>

\* if (quit) throw InterruptedException();  Unwinding destroys lock, then
\* the nearest matching handler gets the exception: one of the body's when
\* it has a catch (...) or catch (const std::exception &) around the call
\* (InterruptedException derives publicly from std::exception), and the
\* handler of run otherwise.
YieldInterrupt ==
    /\ Alive /\ wpc = "y_check" /\ quit
    /\ mutex' = "none"
    /\ wpc' = IF body.handler = "none" THEN "run_catch" ELSE "body_catch"
    /\ UNCHANGED <<cfgVars, shared, cpc, yi, hist, crashed>>

\* The body's handler ends and the body goes on after the try block.
BodyCatchContinue ==
    /\ Alive /\ wpc = "body_catch" /\ body.handler = "swallow"
    /\ wpc' = "body"
    /\ UNCHANGED <<cfgVars, shared, mutex, cpc, yi, hist, crashed>>

\* The body's handler returns from the body: run goes on after the try.
BodyCatchReturn ==
    /\ Alive /\ wpc = "body_catch" /\ body.handler = "return"
    /\ wpc' = "run_lock"
    /\ UNCHANGED <<cfgVars, shared, mutex, cpc, yi, hist, crashed>>

\* run: catch (const InterruptedException &) { return; }
RunCatch ==
    /\ Alive /\ wpc = "run_catch"
    /\ wpc' = "exited"
    /\ UNCHANGED <<cfgVars, shared, mutex, cpc, yi, hist, crashed>>

\* run, after the try: std::lock_guard<std::mutex> lock(mutex);
RunLock ==
    /\ Alive /\ wpc = "run_lock" /\ mutex = "none"
    /\ mutex' = "worker" /\ wpc' = "run_quit"
    /\ UNCHANGED <<cfgVars, shared, cpc, yi, hist, crashed>>

\* quit = true;
RunQuit ==
    /\ Alive /\ wpc = "run_quit"
    /\ quit' = TRUE
    /\ wpc' = IF variant = "value" THEN "run_cgv" ELSE "run_notify"
    /\ UNCHANGED <<cfgVars, canGetValue, result, mutex, cpc, yi, hist, crashed>>

\* canGetValue = false;   (value variant only)
RunClear ==
    /\ Alive /\ wpc = "run_cgv"
    /\ canGetValue' = FALSE /\ wpc' = "run_notify"
    /\ UNCHANGED <<cfgVars, quit, result, mutex, cpc, yi, hist, crashed>>

\* conditionVariable.notify_all();
RunNotify ==
    /\ Alive /\ wpc = "run_notify"
    /\ cpc' = Woken(cpc) /\ wpc' = "run_unlock"
    /\ UNCHANGED <<cfgVars, shared, mutex, yi, hist, crashed>>

\* End of run: the lock_guard is destroyed and the thread function returns.
RunReturn ==
    /\ Alive /\ wpc = "run_unlock"
    /\ mutex' = "none" /\ wpc' = "exited"
    /\ UNCHANGED <<cfgVars, shared, cpc, yi, hist, crashed>>

\* ------------------------------------------------------- spurious wake-ups
\* std::condition_variable::wait may return without any notification.
SpuriousWakeCaller ==
    /\ Alive /\ cpc \in WaitingPcs
    /\ cpc' = Woken(cpc) /\ spur' = TRUE
    /\ UNCHANGED <<cfgVars, shared, mutex, wpc, yi, nres, obs, cancel, joins, crashed>>

SpuriousWakeWorker ==
    /\ Alive /\ wpc \in WaitingPcs
    /\ wpc' = Woken(wpc) /\ spur' = TRUE
    /\ UNCHANGED <<cfgVars, shared, mutex, cpc, yi, nres, obs, cancel, joins, crashed>>

\* ---------------------------------------------------------- specifications
\* The caller's choice of its next operation.
CallerChoice ==
    \/ BoolCheck \/ GetValue \/ GetAssertFail \/ GetUnchecked
    \/ ResumeCall \/ DtorCall

\* The steps of the caller thread inside a member function.
CallerStep ==
    \/ CtorLock \/ CtorSpawn \/ CtorWait \/ CtorReacquire \/ CtorReturn
    \/ ResumeLock \/ ResumeAssertPass \/ ResumeAssertFail
    \/ ResumeIfLive \/ ResumeIfQuit \/ ResumeNotify \/ ResumeWait
    \/ ResumeReacquire \/ ResumeReturn
    \/ DtorLock \/ DtorQuit \/ DtorClear \/ DtorUnlock \/ DtorNotify \/ DtorJoin

\* The steps of the worker thread.
WorkerStep ==
    \/ RunStart \/ BodyYield \/ BodyReturn \/ BodyThrow \/ RunUncaught
    \/ YieldLock \/ YieldStore \/ YieldPublish \/ YieldNotify \/ YieldWait
    \/ YieldReacquire \/ YieldReturn \/ YieldInterrupt
    \/ BodyCatchContinue \/ BodyCatchReturn \/ RunCatch
    \/ RunLock \/ RunQuit \/ RunClear \/ RunNotify \/ RunReturn

\* The steps in which no wait returns without a notify_all.
NextNotified == CallerChoice \/ CallerStep \/ WorkerStep

Next == NextNotified \/ SpuriousWakeCaller \/ SpuriousWakeWorker

Spec == Init /\ [][Next]_vars

\* The runs in which every wait returns after a notify_all.
SpecNotified == Init /\ [][NextNotified]_vars

\* Both threads are scheduled: a thread that can take a step inside a
\* member function or in the body eventually takes one.  Nothing obliges
\* the caller to call an operation, nor a wait to return spuriously.
FairSpec == Spec /\ WF_vars(CallerStep) /\ WF_vars(WorkerStep)

TypeOK ==
    /\ body \in Bodies
    /\ ndebug \in BOOLEAN
    /\ variant \in {"value", "void"}
    /\ quit \in BOOLEAN
    /\ canGetValue \in BOOLEAN
    /\ result \in Values \cup {Indeterminate}
    /\ mutex \in {"none", "caller", "worker"}
    /\ yi \in 0..MaxYieldCalls
    /\ nres \in 0..MaxResumes
    /\ crashed \in {"no", "assert", "terminate"}
    /\ joins \in 0..1
    /\ spur \in BOOLEAN

\* ------------------------------------------------------------- vocabulary
\* The caller runs code of its own: it is in no member function.
CallerInUserCode == cpc \in {"user", "destroyed"}
\* The worker runs code of the body (a handler of the body included).
WorkerInBody == wpc \in {"body", "body_catch"}
\* The caller is inside the constructor or resume(), at or in the wait.
CallerBlockedInCtorOrResume == cpc \in {"ctor_wait", "ctor_waiting", "res_waiting"}
N == Len(body.vals)

\* At no time do both sides run user code.  (Holds under SpecNotified.)
UserCodeExclusive == ~(CallerInUserCode /\ WorkerInBody)

\* ------------------------------------------------------------------ claims
\* C1: strict alternation.  When a wait returns only after a notify, at
\* most one side runs user code: while the worker runs body code the
\* caller is blocked inside the constructor or inside resume(), and while
\* the caller runs its own code the worker is blocked in yield's wait or
\* has exited.
C1_StrictAlternation ==
    /\ ~(CallerInUserCode /\ WorkerInBody)
    /\ WorkerInBody => CallerBlockedInCtorOrResume
    /\ CallerInUserCode => wpc \in {"y_waiting", "exited"}

\* C2: whenever the constructor returns, the worker is blocked in the wait
\* of its first yield, which has published (Suspended), or the body has
\* returned and quit is true (Finished).
Suspended1 ==
    /\ wpc = "y_waiting" /\ yi = 1 /\ ~quit
    /\ variant = "value" => canGetValue /\ result = YieldArg
Finished0 == wpc = "exited" /\ yi = 0 /\ quit /\ ~canGetValue
C2_ConstructionPostcondition ==
    [][CtorReturn => (Suspended1 \/ Finished0)']_vars
Stored == IF wpc \in {"y_lock", "y_result"} THEN yi - 1 ELSE yi
C4_LivenessCount ==
    body.tail = "return" =>
        /\ obs.op = "bool" => (obs.ok <=> obs.n < N)
        /\ cpc = "user" => (~quit <=> nres < N)
\* C5: when ~Coroutine sets quit while the worker is suspended in yield's
\* wait (blocked, or woken and not yet back in possession of the mutex)
\* and the body has no handler around the yield, the destructor
\* returns, and from the moment quit is set the worker runs no body code
\* and calls no further yield.
CancelledAtYield == body.handler = "none" /\ cancel.at \in {"y_waiting", "y_reacq"}
C5_NoBodyAfterCancel ==
    CancelledAtYield =>
        /\ yi = cancel.yi
        /\ wpc \in {"y_waiting", "y_reacq", "y_check", "run_catch", "exited"}
        /\ cpc = "destroyed" => wpc = "exited"
C5_CancellationAtYield ==
    /\ []C5_NoBodyAfterCancel
    /\ CancelledAtYield ~> (cpc = "destroyed")
C5_Witness ==
    /\ CancelledAtYield /\ body.tail = "loop" /\ cpc = "destroyed"
    /\ wpc = "exited" /\ yi = 1

\* C6: an error the body raises is captured on the worker side and handed
\* to the caller; it does not end the process.
C6_BodyFailurePropagates == crashed # "terminate"

\* C7: no handler of the body ever runs for the cancellation signal.
C7_CancellationInvisible == wpc # "body_catch"

\* C8: when ~Coroutine sets quit while the worker runs body code, the
\* destructor's join returns once the worker has reached its next yield()
\* or returned.  (Bodies that end by returning, without a handler.)
CancelledWhileRunning ==
    /\ cancel.at = "body"
    /\ body.tail = "return" /\ body.handler = "none"
C8_CancellationAwayFromYield ==
    [](CancelledWhileRunning => <>(cpc = "destroyed"))

\* C9: a resume() on a live coroutine returns only when the worker is
\* blocked in its next yield or the body has returned; caller and worker
\* are never both blocked on the condition variable; and unless the body
\* throws before its next yield, the resume() returns.
NextSegmentThrows == yi >= N /\ body.tail = "throw"
C9_ResumeProgress ==
    /\ [][ResumeReturn =>
            \/ (wpc = "y_waiting" /\ yi = nres + 1 /\ ~quit)'
            \/ (wpc = "exited" /\ quit)']_vars
    /\ [](Cardinality(waiters) <= 1)
    /\ (cpc = "res_lock" /\ ~quit /\ ~NextSegmentThrows) ~> (cpc = "user")
\* A step of resume().
ResumeStep ==
    \/ ResumeLock \/ ResumeAssertPass \/ ResumeAssertFail
    \/ ResumeIfLive \/ ResumeIfQuit \/ ResumeNotify \/ ResumeWait
    \/ ResumeReacquire \/ ResumeReturn

\* C10 as stated: a resume() called with quit true fails at its assertion;
\* it never gets past it.
C10_ResumeAfterFinishedFails == ~(cpc = "res_if" /\ quit)

\* C10 as amended: a resume() called with quit true fails at its assertion
\* when assertions are compiled in, and returns at once when they are not
\* (NDEBUG); either way it does not notify, does not wait, does not move
\* the worker and changes none of quit, canGetValue, result.
ResumeOnFinished == cpc \in {"res_lock", "res_assert", "res_if"} /\ quit
C10_ResumeAfterFinishedAmended ==
    /\ [](ResumeOnFinished => cpc \notin {"res_notify", "res_wait", "res_waiting"})
    /\ [][(ResumeOnFinished /\ ResumeStep) =>
            /\ UNCHANGED <<quit, canGetValue, result, wpc>>
            /\ cpc' \notin {"res_notify", "res_wait", "res_waiting"}
            /\ (cpc = "res_assert" /\ ~ndebug) => crashed' = "assert"
            /\ (cpc = "res_assert" /\ ndebug) => cpc' = "res_if"
            /\ cpc = "res_if" => cpc' = "res_unlock"]_vars
C10_Witness ==
    /\ ndebug /\ body.tail = "return" /\ cpc = "user" /\ quit
    /\ nres = N + 1

\* C11: when the destructor has returned the worker thread has exited and
\* has been joined once (never more, and not before); and a destructor
\* entered with the coroutine Finished waits for no handshake: the worker
\* is past its last wait, on its way out of run or out of it, and once it
\* is out the mutex is free.
DtorPcs ==
    {"dtor_lock", "dtor_quit", "dtor_cgv", "dtor_unlock", "dtor_notify", "dtor_join"}
C11_DestructorPostcondition ==
    /\ cpc = "destroyed" => wpc = "exited" /\ joins = 1
    /\ cpc # "destroyed" => joins = 0
    /\ (cpc = "dtor_lock" /\ quit) =>
           /\ wpc \in {"run_cgv", "run_notify", "run_unlock", "exited"}
           /\ wpc = "exited" => mutex = "none"
    /\ (cpc \in DtorPcs /\ cancel.at = "exited") => wpc = "exited"
C11_Witness ==
    /\ cpc = "destroyed" /\ joins = 1 /\ wpc = "exited"
    /\ cancel.at = "y_waiting" /\ body.tail = "loop" /\ nres = 1

\* C12: canGetValue is true only between a yield's publish and the next
\* resume(): the worker is still inside the yield that published (at the
\* latest it is leaving it, woken by that resume); it is false while the
\* worker runs body code.
C12_ValueAvailableWindow ==
    canGetValue =>
        /\ wpc \in {"y_notify", "y_wait", "y_waiting", "y_reacq", "y_check"}
        /\ ~WorkerInBody

\* C13: in the value variant quit implies that canGetValue is false, in
\* every state in which no thread is between its write of quit and its
\* write of canGetValue (both made under the mutex).
BetweenQuitAndClear == cpc = "dtor_cgv" \/ wpc = "run_cgv"
C13_TerminationInvalidatesSlot ==
    (variant = "value" /\ quit /\ ~BetweenQuitAndClear) => ~canGetValue

\* C14: quit never goes back to false; a liveness check made with quit
\* true returns false; and with quit true resume() never reaches its
\* notify_all nor its wait, so that it never hands the turn to the worker.
C14_FinishedIsTerminal ==
    /\ [][quit => quit']_vars
    /\ [][(quit /\ BoolCheck) => ~obs'.ok]_vars
    /\ [](quit => cpc \notin {"res_notify", "res_wait"})
    /\ [][(quit /\ ResumeStep) => wpc' = wpc]_vars
C14_Witness ==
    /\ quit /\ cpc = "user" /\ ndebug /\ body.tail = "return"
    /\ nres = N + 1 /\ obs.op = "bool" /\ ~obs.ok /\ wpc = "exited"

\* C15: the waits have no predicate.  With spurious wake-ups the caller
\* and the worker can run user code at the same time (the witness: the
\* constructor has returned and the body has not reached its first yield),
\* and that happens only after a wait has returned without a notify.
C15_SpuriousWakeupRace == (CallerInUserCode /\ WorkerInBody) => spur
C15_Witness ==
    /\ spur /\ cpc = "user" /\ wpc = "body"
    /\ yi = 0 /\ nres = 0 /\ ~quit /\ body.handler = "none"

\* C16: get and operator bool are pure observers.  A caller in its own
\* code can always make them, whoever holds the mutex; they leave quit,
\* canGetValue, result, the mutex and the worker as they are; operator
\* bool returns true exactly when quit is false, and a get whose assertion
\* passes returns result.
Observe == BoolCheck \/ GetValue \/ GetUnchecked \/ GetAssertFail
C16_PureObservers ==
    /\ []((Alive /\ cpc = "user") => ENABLED BoolCheck)
    /\ []((Alive /\ cpc = "user" /\ variant = "value") =>
              ENABLED (GetValue \/ GetUnchecked \/ GetAssertFail))
    /\ [][Observe => UNCHANGED <<quit, canGetValue, result, mutex, wpc, cpc>>]_vars
    /\ [][BoolCheck => (obs'.op = "bool" /\ obs'.ok = ~quit)]_vars
    /\ [][GetValue => (obs'.op = "get" /\ obs'.val = result)]_vars
C16_Witness ==
    /\ cpc = "user" /\ mutex = "worker" /\ obs.op = "get" /\ obs.ok
    /\ canGetValue /\ obs.val = result

\* C17: every write to quit, canGetValue or result is a step of a thread
\* that holds the mutex, before and after the write.
WritesShared ==
    \/ DtorQuit \/ DtorClear
    \/ YieldStore \/ YieldPublish \/ RunQuit \/ RunClear
C17_LockDiscipline ==
    /\ [][(DtorQuit \/ DtorClear) => (mutex = "caller" /\ mutex' = "caller")]_vars
    /\ [][(YieldStore \/ YieldPublish \/ RunQuit \/ RunClear) =>
            (mutex = "worker" /\ mutex' = "worker")]_vars
    /\ [][(shared' # shared) => WritesShared]_vars
C17_Witness ==
    /\ N = MaxYields /\ yi = N /\ wpc = "y_cgv" /\ mutex = "worker"
    /\ cpc = "res_waiting" /\ result = body.vals[N]

\* C18: for a value-carrying body that yields v1..vN, N >= 1, and returns,
\* a read is valid as soon as the constructor has returned and gives v1;
\* after k resume() calls, k < N, it gives v(k+1) and the coroutine is
\* live; the N-th resume() returns with the coroutine Finished and
\* nothing to read.
C18_FirstValueBeforeResume ==
    (variant = "value" /\ body.tail = "return" /\ N >= 1 /\ cpc = "user") =>
        /\ nres < N =>
             /\ ~quit /\ canGetValue /\ result = body.vals[nres + 1]
             /\ wpc = "y_waiting" /\ yi = nres + 1
        /\ nres = N => quit /\ ~canGetValue /\ wpc = "exited"
        /\ (obs.op = "get" /\ obs.n = nres /\ nres < N) => obs.ok /\ obs.val = body.vals[nres + 1]
\* ------------------------------------------------- Coroutine<void>, apart
\* The specialisation Coroutine<void> (lines 125-207) written on its own,
\* as a relation on records: the state of one instance, and the states one
\* statement of one of its threads leads to.  body and ndebug are those of
\* the run.
VoidLockBy(v, who, to) ==
    IF v.mutex = "none"
    THEN {[v EXCEPT !.mutex = who, ![IF who = "caller" THEN "cpc" ELSE "wpc"] = to]}
    ELSE {}

\* Coroutine<void>: constructor, operator bool, resume, destructor.
VoidCallerSucc(v) ==
    CASE v.cpc = "ctor_lock" -> VoidLockBy(v, "caller", "ctor_spawn")
      [] v.cpc = "ctor_spawn" -> {[v EXCEPT !.wpc = "run_start", !.cpc = "ctor_wait"]}
      [] v.cpc = "ctor_wait" -> {[v EXCEPT !.mutex = "none", !.cpc = "ctor_waiting"]}
      [] v.cpc = "ctor_reacq" -> VoidLockBy(v, "caller", "ctor_unlock")
      [] v.cpc = "ctor_unlock" -> {[v EXCEPT !.mutex = "none", !.cpc = "user"]}
      [] v.cpc = "user" ->
            {[v EXCEPT !.obs = [op |-> "bool", n |-> v.nres, ok |-> ~v.quit,
                                val |-> Indeterminate]]}
            \cup (IF v.nres < MaxResumes
                  THEN {[v EXCEPT !.cpc = "res_lock", !.obs = NoObs]} ELSE {})
            \cup {[v EXCEPT !.cpc = "dtor_lock", !.obs = NoObs]}
      [] v.cpc = "res_lock" -> VoidLockBy(v, "caller", "res_assert")
      [] v.cpc = "res_assert" ->
            IF v.quit /\ ~ndebug
            THEN {[v EXCEPT !.crashed = "assert"]}
            ELSE {[v EXCEPT !.cpc = "res_if"]}
      [] v.cpc = "res_if" ->
            {[v EXCEPT !.cpc = IF v.quit THEN "res_unlock" ELSE "res_notify"]}
      [] v.cpc = "res_notify" ->
            {[v EXCEPT !.wpc = Woken(v.wpc), !.cpc = "res_wait"]}
      [] v.cpc = "res_wait" -> {[v EXCEPT !.mutex = "none", !.cpc = "res_waiting"]}
      [] v.cpc = "res_reacq" -> VoidLockBy(v, "caller", "res_unlock")
      [] v.cpc = "res_unlock" ->
            {[v EXCEPT !.mutex = "none", !.cpc = "user", !.nres = v.nres + 1]}
      [] v.cpc = "dtor_lock" -> VoidLockBy(v, "caller", "dtor_quit")
      [] v.cpc = "dtor_quit" -> {[v EXCEPT !.quit = TRUE, !.cpc = "dtor_unlock"]}
      [] v.cpc = "dtor_unlock" -> {[v EXCEPT !.mutex = "none", !.cpc = "dtor_notify"]}
      [] v.cpc = "dtor_notify" ->
            {[v EXCEPT !.wpc = Woken(v.wpc), !.cpc = "dtor_join"]}
      [] v.cpc = "dtor_join" ->
            IF v.wpc = "exited"
            THEN {[v EXCEPT !.cpc = "destroyed", !.joins = v.joins + 1]}
            ELSE {}
      [] OTHER -> {}

\* Coroutine<void>: run, the body, yield.
VoidWorkerSucc(v) ==
    CASE v.wpc = "run_start" -> {[v EXCEPT !.wpc = "body"]}
      [] v.wpc = "body" ->
            IF v.yi < Len(body.vals) \/ (body.tail = "loop" /\ v.yi < MaxYieldCalls)
            THEN {[v EXCEPT !.yi = v.yi + 1, !.wpc = "y_lock"]}
            ELSE IF body.tail = "return" THEN {[v EXCEPT !.wpc = "run_lock"]}
            ELSE IF body.tail = "throw" THEN {[v EXCEPT !.wpc = "body_throw"]}
            ELSE {}
      [] v.wpc = "body_throw" -> {[v EXCEPT !.crashed = "terminate"]}
      [] v.wpc = "y_lock" -> VoidLockBy(v, "worker", "y_notify")
      [] v.wpc = "y_notify" -> {[v EXCEPT !.cpc = Woken(v.cpc), !.wpc = "y_wait"]}
      [] v.wpc = "y_wait" -> {[v EXCEPT !.mutex = "none", !.wpc = "y_waiting"]}
      [] v.wpc = "y_reacq" -> VoidLockBy(v, "worker", "y_check")
      [] v.wpc = "y_check" ->
            {[v EXCEPT !.mutex = "none",
                       !.wpc = IF ~v.quit THEN "body"
                               ELSE IF body.handler = "none" THEN "run_catch"
                               ELSE "body_catch"]}
      [] v.wpc = "body_catch" ->
            {[v EXCEPT !.wpc = IF body.handler = "swallow" THEN "body" ELSE "run_lock"]}
      [] v.wpc = "run_catch" -> {[v EXCEPT !.wpc = "exited"]}
      [] v.wpc = "run_lock" -> VoidLockBy(v, "worker", "run_quit")
      [] v.wpc = "run_quit" -> {[v EXCEPT !.quit = TRUE, !.wpc = "run_notify"]}
      [] v.wpc = "run_notify" -> {[v EXCEPT !.cpc = Woken(v.cpc), !.wpc = "run_unlock"]}
      [] v.wpc = "run_unlock" -> {[v EXCEPT !.mutex = "none", !.wpc = "exited"]}
      [] OTHER -> {}

VoidSucc(v) ==
    IF v.crashed = "no" THEN VoidCallerSucc(v) \cup VoidWorkerSucc(v) ELSE {}

\* The statements only Coroutine<YieldValue> has (result = yieldValue,
\* canGetValue = true, canGetValue = false) stand before a statement both
\* variants have: a thread about to execute one of them is, with the value
\* slot erased, about to execute that common statement.
ErasePc(pc) ==
    CASE pc \in {"y_result", "y_cgv"} -> "y_notify"
      [] pc = "dtor_cgv" -> "dtor_unlock"
      [] pc = "run_cgv" -> "run_notify"
      [] OTHER -> pc

\* The state with the value slot erased.
Erased ==
    [quit |-> quit, mutex |-> mutex, cpc |-> ErasePc(cpc), wpc |-> ErasePc(wpc),
     yi |-> yi, nres |-> nres, obs |-> obs, joins |-> joins, crashed |-> crashed]

\* The caller constructs, checks liveness, resumes and destroys; no get.
NextHandshake == BoolCheck \/ ResumeCall \/ DtorCall \/ CallerStep \/ WorkerStep

SpecHandshake == Init /\ [][NextHandshake]_vars

\* A step of a statement that only the value variant has.
SlotStep == NextHandshake /\ Erased' = Erased /\ vars' # vars

\* C19: Coroutine<void> is Coroutine<YieldValue> with the value slot
\* erased.  Run side by side on the same body with the same caller, each
\* step of either variant is, slot erased, a step of Coroutine<void> or a
\* step of a value-only statement; and each step Coroutine<void> can take
\* the variant can take too, at once or after its pending value-only
\* statements: same liveness results, same blocking and waking, same end
\* of the worker.
C19_VoidIsValueErased ==
    /\ [][NextHandshake => (Erased' \in VoidSucc(Erased) \/ Erased' = Erased)]_vars
    /\ [](\A t \in VoidSucc(Erased) :
             \/ ENABLED (NextHandshake /\ Erased' = t)
             \/ ENABLED SlotStep)
    /\ [](variant = "void" => ~ENABLED SlotStep)
C19_Witness ==
    /\ variant = "value" /\ body.tail = "loop" /\ cpc = "destroyed"
    /\ wpc = "exited" /\ nres = MaxYields /\ joins = 1

====
